---- MODULE Spec2Model ----
(***************************************************************************)
(* Ed Discussion SLO analyzer (ed_slo_analyzer.py): the run of the CLI in  *)
(* "overall" mode.  The JSON array is loaded and every question record is  *)
(* parsed and classified into a ThreadEntry (EdAnalyzer.__init__), then    *)
(* show_overall_stats filters the threads and reports the statistics and,  *)
(* when asked, the category breakdown.                                     *)
(*                                                                         *)
(* Python values are represented as follows.                               *)
(*   dict            a function whose DOMAIN is the set of keys present    *)
(*   list            a sequence                                            *)
(*   str (category)  a sequence of code points ("A" is <<65>>)             *)
(*   ISO timestamp   [iso |-> TRUE, wall, off]: the wall-clock seconds     *)
(*                   written in the string and its UTC offset, or          *)
(*                   [iso |-> FALSE] for a string that does not parse      *)
(*   aware datetime  [wall, off]                                           *)
(*   timedelta       an integer number of seconds                          *)
(*   float hours     the fraction [num, den] (seconds over 3600)           *)
(*   Optional[x]     [some |-> FALSE] (None) or [some |-> TRUE, v |-> x]   *)
(*   a call          [exc |-> "none", ...] or [exc |-> <exception name>]   *)
(***************************************************************************)
EXTENDS Integers, Sequences, FiniteSets, TLC

VARIABLES
    pc,                \* "start", "loaded", "exit1" or "done"
    args,              \* the parsed command line flags
    data,              \* the JSON array read from the file
    threads,           \* EdAnalyzer.threads
    warnings,          \* number of "Skipping malformed thread" warnings printed
    filtered_threads,  \* show_overall_stats: the threads handed to the reports
    report,            \* what _show_statistics computed
    breakdown          \* what _show_category_breakdown computed

vars == <<pc, args, data, threads, warnings, filtered_threads, report, breakdown>>

----------------------------------------------------------------------------
(* Program constants *)

NYOffset == -18000

SecondsPerHour == 3600

SEP == <<45>>

RESOLVED == "Resolved"

ENDORSED == "Endorsed"

UNCONFIRMED == "Unconfirmed"

PENDING == "Pending"

ThreadStatus == <<RESOLVED, ENDORSED, UNCONFIRMED, PENDING>>

----------------------------------------------------------------------------
(* Python primitives *)

None == [some |-> FALSE]

Some(x) == [some |-> TRUE, v |-> x]

EmptyDict == [k \in {} |-> k]

Get(d, k, default) == IF k \in DOMAIN d THEN d[k] ELSE default

Raise(e) == [exc |-> e]

\* datetime.astimezone(DEFAULT_TZ): the same instant on the reference zone's clock
astimezone(dt) == [wall |-> dt.wall - dt.off + NYOffset, off |-> NYOffset]

\* datetime.fromisoformat(s).astimezone(DEFAULT_TZ)
ParseTime(s) ==
    IF ~s.iso THEN Raise("ValueError")
    ELSE [exc |-> "none", v |-> astimezone([wall |-> s.wall, off |-> s.off])]

\* a - b for two aware datetimes of the same tzinfo: the wall clocks' difference
TimeDiff(a, b) == a.wall - b.wall

\* datetime.weekday(): Monday is 0; day 0 of the epoch is a Thursday
weekday(dt) == ((dt.wall \div 86400) + 3) % 7

RECURSIVE Join(_, _)
Join(parts, sep) ==
    IF Len(parts) = 0 THEN <<>>
    ELSE IF Len(parts) = 1 THEN parts[1]
    ELSE parts[1] \o sep \o Join(Tail(parts), sep)

\* str < str: code points compared left to right, a proper prefix is smaller
RECURSIVE StrLess(_, _)
StrLess(a, b) ==
    IF Len(b) = 0 THEN FALSE
    ELSE IF Len(a) = 0 THEN TRUE
    ELSE IF a[1] # b[1] THEN a[1] < b[1]
    ELSE StrLess(Tail(a), Tail(b))

----------------------------------------------------------------------------
(* ThreadEntry *)

\* the policy flag ignored: every answered thread counts
is_effectively_answered_any_answer(t, count_unconfirmed) == t.status # PENDING

is_effectively_answered(t, count_unconfirmed) ==
    IF t.status \in {RESOLVED, ENDORSED} THEN TRUE
    ELSE IF t.status = UNCONFIRMED /\ count_unconfirmed THEN TRUE
    ELSE FALSE

is_weekend_post(t) == weekday(t.created_at) >= 5

\* a timedelta is truthy when it is not zero
response_delay_hours(t) ==
    IF t.response_delay.some /\ t.response_delay.v # 0
    THEN Some([num |-> t.response_delay.v, den |-> SecondsPerHour])
    ELSE None

category_path(t) ==
    Join(<<t.category>>
         \o (IF Len(t.subcategory) > 0 THEN <<t.subcategory>> ELSE <<>>)
         \o (IF Len(t.subsubcategory) > 0 THEN <<t.subsubcategory>> ELSE <<>>),
         SEP)

----------------------------------------------------------------------------
(* EdAnalyzer._determine_thread_status *)

Role(answer) == Get(Get(answer, "user", EmptyDict), "role", "")

IsStaffRole(answer) == Role(answer) \in {"admin", "staff"}

Qualifies(answer) == IsStaffRole(answer) \/ Get(answer, "endorsed", FALSE)

\* the scan without its break: the last qualifying answer is kept
RECURSIVE FirstQualifying_no_break(_, _)
FirstQualifying_no_break(answers, k) ==
    IF k > Len(answers) THEN 0
    ELSE LET later == FirstQualifying_no_break(answers, k + 1) IN
         IF later # 0 THEN later
         ELSE IF Qualifies(answers[k]) THEN k
         ELSE 0

\* the for loop: the index of the answer it breaks at, 0 when it runs out
RECURSIVE FirstQualifying(_, _)
FirstQualifying(answers, k) ==
    IF k > Len(answers) THEN 0
    ELSE IF Qualifies(answers[k]) THEN k
    ELSE FirstQualifying(answers, k + 1)

\* the staff check merged into the scan: only the matched answer's role is looked at
has_staff_answer_matched_only(answers) == IsStaffRole(answers[FirstQualifying(answers, 1)])

has_staff_answer(answers) == \E k \in DOMAIN answers : IsStaffRole(answers[k])

\* datetime.fromisoformat(answer['created_at']).astimezone(DEFAULT_TZ)
AnswerTime(answer) ==
    IF "created_at" \notin DOMAIN answer THEN Raise("KeyError")
    ELSE ParseTime(answer.created_at)

Classified(status, answer, created_at) ==
    LET at == AnswerTime(answer) IN
    IF at.exc # "none" THEN at
    ELSE [exc |-> "none", status |-> status, first_answer_at |-> Some(at.v),
          response_delay |-> Some(TimeDiff(at.v, created_at))]

_determine_thread_status(answers, created_at) ==
    IF Len(answers) = 0
    THEN [exc |-> "none", status |-> PENDING, first_answer_at |-> None,
          response_delay |-> None]
    ELSE LET q == FirstQualifying(answers, 1) IN
         IF q # 0
         THEN Classified(IF has_staff_answer(answers) THEN RESOLVED ELSE ENDORSED,
                         answers[q], created_at)
         ELSE Classified(UNCONFIRMED, answers[1], created_at)

----------------------------------------------------------------------------
(* EdAnalyzer._parse_thread and _load_and_parse *)

\* the body of the try block, statement by statement
ParseThreadBody(item) ==
    IF "created_at" \notin DOMAIN item THEN Raise("KeyError")
    ELSE LET created == ParseTime(item.created_at) IN
         IF created.exc # "none" THEN created
         ELSE LET st == _determine_thread_status(Get(item, "answers", <<>>), created.v) IN
              IF st.exc # "none" THEN st
              ELSE IF "number" \notin DOMAIN item THEN Raise("KeyError")
              ELSE [exc |-> "none",
                    entry |-> [id |-> item.number,
                               category |-> Get(item, "category", <<>>),
                               subcategory |-> Get(item, "subcategory", <<>>),
                               subsubcategory |-> Get(item, "subsubcategory", <<>>),
                               created_at |-> created.v,
                               status |-> st.status,
                               first_answer_at |-> st.first_answer_at,
                               response_delay |-> st.response_delay]]

\* an except clause that names KeyError alone
CaughtExceptions_KeyError_only == {"KeyError"}

\* except (KeyError, ValueError)
CaughtExceptions == {"KeyError", "ValueError"}

\* returns the entry, None after a warning, or lets the exception through
_parse_thread(item) ==
    LET r == ParseThreadBody(item) IN
    IF r.exc = "none" THEN [exc |-> "none", warned |-> FALSE, entry |-> Some(r.entry)]
    ELSE IF r.exc \in CaughtExceptions THEN [exc |-> "none", warned |-> TRUE, entry |-> None]
    ELSE r

IsQuestionItem(item) == "type" \in DOMAIN item /\ item.type = "question"

\* the loop over data; acc is [exc, threads, warnings]
RECURSIVE LoadLoop(_, _, _)
LoadLoop(d, i, acc) ==
    IF i > Len(d) THEN acc
    ELSE IF ~IsQuestionItem(d[i]) THEN LoadLoop(d, i + 1, acc)
    ELSE LET r == _parse_thread(d[i]) IN
         IF r.exc # "none" THEN [acc EXCEPT !.exc = r.exc]
         ELSE IF r.entry.some
         THEN LoadLoop(d, i + 1, [acc EXCEPT !.threads = Append(@, r.entry.v)])
         ELSE LoadLoop(d, i + 1, [acc EXCEPT !.warnings = @ + 1])

_load_and_parse(d) == LoadLoop(d, 1, [exc |-> "none", threads |-> <<>>, warnings |-> 0])

----------------------------------------------------------------------------
(* EdAnalyzer._filter_threads *)

_filter_threads(ts, skip_weekends) ==
    IF ~skip_weekends THEN ts
    ELSE LET Weekday(t) == ~is_weekend_post(t) IN SelectSeq(ts, Weekday)

----------------------------------------------------------------------------
(* EdAnalyzer._show_statistics *)

ZeroCounts == [s \in {ThreadStatus[k] : k \in DOMAIN ThreadStatus} |-> 0]

\* for thread in threads: status_counts[thread.status] += 1
RECURSIVE CountStatuses(_, _)
CountStatuses(ts, counts) ==
    IF Len(ts) = 0 THEN counts
    ELSE CountStatuses(Tail(ts), [counts EXCEPT ![Head(ts).status] = @ + 1])

AnsweredThreads(ts, count_unconfirmed) ==
    LET Answered(t) == is_effectively_answered(t, count_unconfirmed) IN
    SelectSeq(ts, Answered)

\* [t.response_delay_hours for t in ... if t.response_delay_hours is not None]
RECURSIVE ResponseTimes(_)
ResponseTimes(ts) ==
    IF Len(ts) = 0 THEN <<>>
    ELSE LET h == response_delay_hours(Head(ts)) IN
         (IF h.some THEN <<h.v>> ELSE <<>>) \o ResponseTimes(Tail(ts))

\* the comparison turned round: t >= ceiling
HoursLeq_flipped(t, ceiling) == t.num >= ceiling * t.den

\* hours compared with a whole number of hours: t <= ceiling
HoursLeq(t, ceiling) == t.num <= ceiling * t.den

HoursLess(a, b) == a.num * b.den < b.num * a.den

\* sum(1 for t in response_times if t <= ceiling)
RECURSIVE Within(_, _)
Within(times, ceiling) ==
    IF Len(times) = 0 THEN 0
    ELSE (IF HoursLeq(Head(times), ceiling) THEN 1 ELSE 0) + Within(Tail(times), ceiling)

RECURSIVE SumSeconds(_)
SumSeconds(times) == IF Len(times) = 0 THEN 0 ELSE Head(times).num + SumSeconds(Tail(times))

\* statistics.mean of a non-empty list of hours
mean(times) == [num |-> SumSeconds(times), den |-> Len(times) * SecondsPerHour]

RECURSIVE InsertTime(_, _)
InsertTime(x, s) ==
    IF Len(s) = 0 THEN <<x>>
    ELSE IF HoursLess(x, s[1]) THEN <<x>> \o s
    ELSE <<s[1]>> \o InsertTime(x, Tail(s))

RECURSIVE SortedTimes(_)
SortedTimes(times) ==
    IF Len(times) = 0 THEN <<>>
    ELSE InsertTime(times[Len(times)], SortedTimes(SubSeq(times, 1, Len(times) - 1)))

\* statistics.median of a non-empty list of hours
median(times) ==
    LET s == SortedTimes(times)
        n == Len(s)
    IN  IF n % 2 = 1 THEN s[(n + 1) \div 2]
        ELSE [num |-> s[n \div 2].num + s[n \div 2 + 1].num, den |-> 2 * SecondsPerHour]

\* the response time analysis and the SLO metrics, printed for a non-empty list
TimingReport(times, answered_count) ==
    [mean |-> mean(times),
     median |-> median(times),
     fastest |-> SortedTimes(times)[1],
     slowest |-> SortedTimes(times)[Len(times)],
     within_6h |-> Within(times, 6),
     within_24h |-> Within(times, 24),
     within_48h |-> Within(times, 48),
     slo_denominator |-> answered_count,
     divisors |-> <<Len(times), answered_count, answered_count, answered_count>>]

\* the statistics of a non-empty list of threads
Statistics(ts, count_unconfirmed) ==
    LET answered_threads == AnsweredThreads(ts, count_unconfirmed)
        total_count == Len(ts)
        answered_count == Len(answered_threads)
        response_times == ResponseTimes(answered_threads)
        timing == IF Len(answered_threads) > 0 /\ Len(response_times) > 0
                  THEN Some(TimingReport(response_times, answered_count))
                  ELSE None
    IN  [outcome |-> "stats",
         total_count |-> total_count,
         status_counts |-> CountStatuses(ts, ZeroCounts),
         answered_count |-> answered_count,
         answered_rate |-> [num |-> answered_count * 100, den |-> total_count],
         timing |-> timing,
         divisors |-> <<total_count>> \o (IF timing.some THEN timing.v.divisors ELSE <<>>)]

\* the emptiness check left out
_show_statistics_unguarded(ts, count_unconfirmed) == Statistics(ts, count_unconfirmed)

_show_statistics(ts, count_unconfirmed) ==
    IF Len(ts) = 0 THEN [outcome |-> "no_questions", divisors |-> <<>>]
    ELSE Statistics(ts, count_unconfirmed)

----------------------------------------------------------------------------
(* EdAnalyzer._show_category_breakdown *)

\* the position of key in the dict's insertion order, 0 when it is not a key
KeyIndex(stats, key) ==
    IF \E j \in DOMAIN stats : stats[j].category = key
    THEN CHOOSE j \in DOMAIN stats : stats[j].category = key
    ELSE 0

NewCategory(key) ==
    [category |-> key, total |-> 0, answered |-> 0, response_times |-> <<>>,
     status_counts |-> ZeroCounts]

\* one iteration of the loop over threads, on the entry of the thread's category
Accumulate(entry, t, count_unconfirmed) ==
    LET answered == is_effectively_answered(t, count_unconfirmed)
        h == response_delay_hours(t)
    IN  [entry EXCEPT
            !.total = @ + 1,
            !.status_counts[t.status] = @ + 1,
            !.answered = IF answered THEN @ + 1 ELSE @,
            !.response_times = IF answered /\ h.some THEN Append(@, h.v) ELSE @]

\* the loop over threads; stats is category_stats, its items in insertion order
RECURSIVE CategoryLoop(_, _, _)
CategoryLoop(ts, count_unconfirmed, stats) ==
    IF Len(ts) = 0 THEN stats
    ELSE LET t == Head(ts)
             key == category_path(t)
             known == IF KeyIndex(stats, key) = 0 THEN Append(stats, NewCategory(key))
                      ELSE stats
             j == KeyIndex(known, key)
         IN  CategoryLoop(Tail(ts), count_unconfirmed,
                          [known EXCEPT ![j] = Accumulate(@, t, count_unconfirmed)])

category_stats(ts, count_unconfirmed) == CategoryLoop(ts, count_unconfirmed, <<>>)

RECURSIVE InsertItem(_, _)
InsertItem(x, s) ==
    IF Len(s) = 0 THEN <<x>>
    ELSE IF StrLess(x.category, s[1].category) THEN <<x>> \o s
    ELSE <<s[1]>> \o InsertItem(x, Tail(s))

\* the items left in insertion order
sorted_not(items) == items

\* sorted(category_stats.items()): the keys are distinct, so the keys decide
RECURSIVE sorted(_)
sorted(items) ==
    IF Len(items) = 0 THEN <<>>
    ELSE InsertItem(items[Len(items)], sorted(SubSeq(items, 1, Len(items) - 1)))

\* the two lines printed for one category
CategoryLine(stats) ==
    [category |-> stats.category,
     total |-> stats.total,
     answered |-> stats.answered,
     answer_rate |-> IF stats.total > 0
                     THEN [num |-> stats.answered * 100, den |-> stats.total]
                     ELSE [num |-> 0, den |-> 1],
     avg_time |-> IF Len(stats.response_times) > 0
                  THEN Some(mean(stats.response_times)) ELSE None,
     status_counts |-> stats.status_counts,
     divisors |-> (IF stats.total > 0 THEN <<stats.total>> ELSE <<>>)
                  \o (IF Len(stats.response_times) > 0
                      THEN <<Len(stats.response_times)>> ELSE <<>>)]

RECURSIVE AllDivisors(_)
AllDivisors(lines) ==
    IF Len(lines) = 0 THEN <<>> ELSE Head(lines).divisors \o AllDivisors(Tail(lines))

\* the groups reported, in the order they are printed
CategoryLines(ts, count_unconfirmed) ==
    LET items == sorted(category_stats(ts, count_unconfirmed)) IN
    [j \in DOMAIN items |-> CategoryLine(items[j])]

_show_category_breakdown(ts, count_unconfirmed) ==
    LET lines == CategoryLines(ts, count_unconfirmed) IN
    [ran |-> TRUE, groups |-> lines, divisors |-> AllDivisors(lines)]

----------------------------------------------------------------------------
(* The run: EdAnalyzer(args.json_file), then show_overall_stats *)

\* analyzer = EdAnalyzer(args.json_file); an exception ends the run with exit code 1
LoadAndParse ==
    /\ pc = "start"
    /\ LET r == _load_and_parse(data) IN
       /\ pc' = IF r.exc = "none" THEN "loaded" ELSE "exit1"
       /\ threads' = r.threads
       /\ warnings' = r.warnings
    /\ UNCHANGED <<args, data, filtered_threads, report, breakdown>>

\* analyzer.show_overall_stats(categorize, count_unconfirmed, skip_weekends)
ShowOverallStats ==
    /\ pc = "loaded"
    /\ LET shown == _filter_threads(threads, args.skip_weekends) IN
       /\ filtered_threads' = shown
       /\ report' = _show_statistics(shown, args.count_unconfirmed)
       /\ breakdown' = IF args.categorize
                       THEN _show_category_breakdown(shown, args.count_unconfirmed)
                       ELSE [ran |-> FALSE]
    /\ pc' = "done"
    /\ UNCHANGED <<args, data, threads, warnings>>

Next == LoadAndParse \/ ShowOverallStats

----------------------------------------------------------------------------
(* Inputs: the JSON arrays and command lines the runs are checked on *)

MaxAnswers == 3

MaxSegLen == 2

MaxRecords == 2

MaxThreads == 2

MaxCatThreads == 3

SeqsUpTo(S, n) == UNION {[1..k -> S] : k \in 0..n}

\* the ISO string of an instant (seconds since the epoch) written with a UTC offset
Iso(instant, off) == [iso |-> TRUE, wall |-> instant + off, off |-> off]

Garbage == [iso |-> FALSE]

\* Monday 1970-01-05 12:00 UTC and Saturday 1970-01-10 12:00 UTC
Monday == 4 * 86400 + 43200

Saturday == 9 * 86400 + 43200

Answer(role, endorsed, ts) ==
    [user |-> [role |-> role], endorsed |-> endorsed, created_at |-> ts]

Question(number, created, answers) ==
    [type |-> "question", number |-> number, created_at |-> created, answers |-> answers]

Flags(categorize, count_unconfirmed, skip_weekends) ==
    [categorize |-> categorize, count_unconfirmed |-> count_unconfirmed,
     skip_weekends |-> skip_weekends]

InitRun(array, flags) ==
    /\ pc = "start"
    /\ data = array
    /\ args \in flags
    /\ threads = <<>>
    /\ warnings = 0
    /\ filtered_threads = <<>>
    /\ report = [outcome |-> "none"]
    /\ breakdown = [ran |-> FALSE]

\* one question with up to MaxAnswers answers of every role and endorsement, posted
\* at the question's instant or an hour later (written with another offset), and
\* answers that carry no author or endorsement
ClassifyAnswers ==
    {Answer(r, e, t) : r \in {"admin", "staff", "student"}, e \in BOOLEAN,
                       t \in {Iso(Monday, 0), Iso(Monday + 3600, 39600)}}
    \cup {[created_at |-> t] : t \in {Iso(Monday, 0), Iso(Monday + 3600, 39600)}}

InitClassify ==
    \E n \in 0..MaxAnswers : \E a \in [1..n -> ClassifyAnswers] :
        InitRun(<<Question(1, Iso(Monday, 0), a)>>,
                {Flags(FALSE, c, FALSE) : c \in BOOLEAN})

SpecClassify == InitClassify /\ [][Next]_vars

\* one question without answers whose three category keys are each absent or a
\* string of up to MaxSegLen letters, posted on a weekday or at a weekend
Strs == SeqsUpTo({65, 66}, MaxSegLen)

Opt(S) == {None} \cup {Some(x) : x \in S}

Key(k, o) == IF o.some THEN k :> o.v ELSE EmptyDict

PathRecord(day, c, sc, ssc) ==
    Question(1, Iso(day, 0), <<>>)
    @@ Key("category", c) @@ Key("subcategory", sc) @@ Key("subsubcategory", ssc)

InitPath ==
    \E day \in {Monday, Saturday} :
        \E c \in Opt(Strs) : \E sc \in Opt(Strs) : \E ssc \in Opt(Strs) :
            InitRun(<<PathRecord(day, c, sc, ssc)>>,
                    {Flags(TRUE, FALSE, w) : w \in BOOLEAN})

SpecPath == InitPath /\ [][Next]_vars

\* arrays of up to MaxRecords records, the record at position i numbered i: records
\* that are no questions, and questions with or without a number, with a creation
\* timestamp that is absent, unparsable or good, and with answers whose timestamps
\* are absent, unparsable or good
LoadAnswerLists ==
    {<<>>,
     <<Answer("admin", FALSE, Iso(Monday + 3600, 0))>>,
     <<Answer("student", FALSE, Garbage)>>,
     <<[user |-> [role |-> "student"], endorsed |-> FALSE]>>,
     <<Answer("student", TRUE, Iso(Monday + 3600, 0)), Answer("admin", FALSE, Garbage)>>,
     <<Answer("student", FALSE, Iso(Monday + 3600, 0)), Answer("staff", FALSE, Garbage)>>}

LoadShapes ==
    {[question |-> TRUE, number |-> n, created |-> c, answers |-> a] :
        n \in BOOLEAN, c \in Opt({Garbage, Iso(Monday, 0)}), a \in LoadAnswerLists}
    \cup {[question |-> FALSE, number |-> TRUE, created |-> c, answers |-> <<>>] :
            c \in Opt({Iso(Monday, 0)})}

LoadRecord(i, shape) ==
    (IF shape.question THEN "type" :> "question" ELSE "type" :> "post")
    @@ (IF shape.number THEN "number" :> i ELSE EmptyDict)
    @@ Key("created_at", shape.created)
    @@ ("answers" :> shape.answers)

InitLoad ==
    \E n \in 0..MaxRecords : \E f \in [1..n -> LoadShapes] :
        InitRun([i \in 1..n |-> LoadRecord(i, f[i])], {Flags(TRUE, FALSE, FALSE)})

SpecLoad == InitLoad /\ [][Next]_vars

\* arrays of up to MaxThreads well-formed questions, each without an answer or with
\* one answer that makes it Resolved, Endorsed or Unconfirmed, posted before the
\* question, at its instant, or at and just past each SLO ceiling
Delays ==
    {0 - SecondsPerHour, 0} \cup UNION {{h * SecondsPerHour, h * SecondsPerHour + 1} : h \in {6, 24, 48}}

StatsAnswerLists ==
    {<<>>} \cup {<<Answer(a[1], a[2], Iso(Monday + d, 0))>> :
                    a \in {<<"admin", FALSE>>, <<"student", TRUE>>, <<"student", FALSE>>},
                    d \in Delays}

Init ==
    \E n \in 0..MaxThreads : \E f \in [1..n -> StatsAnswerLists] :
        InitRun([i \in 1..n |-> Question(i, Iso(Monday, 0), f[i])],
                {Flags(g, c, FALSE) : g \in BOOLEAN, c \in BOOLEAN})

Spec == Init /\ [][Next]_vars

\* arrays of up to MaxCatThreads well-formed questions over four category paths
\* ("A", "A-B", "B" and, with an empty category, "-B"), each Pending, Resolved or
\* Unconfirmed
CatShapes ==
    {[category |-> c[1], subcategory |-> c[2], answers |-> a] :
        c \in {<<<<65>>, <<>>>>, <<<<65>>, <<66>>>>, <<<<66>>, <<>>>>, <<<<>>, <<66>>>>},
        a \in {<<>>, <<Answer("staff", FALSE, Iso(Monday + 3600, 0))>>,
               <<Answer("student", FALSE, Iso(Monday + 7200, 0))>>}}

CatRecord(i, shape) ==
    Question(i, Iso(Monday, 0), shape.answers)
    @@ ("category" :> shape.category) @@ ("subcategory" :> shape.subcategory)

InitCat ==
    \E n \in 0..MaxCatThreads : \E f \in [1..n -> CatShapes] :
        InitRun([i \in 1..n |-> CatRecord(i, f[i])],
                {Flags(TRUE, c, FALSE) : c \in BOOLEAN})

SpecCat == InitCat /\ [][Next]_vars

----------------------------------------------------------------------------
(* The claims' vocabulary, stated on the input records *)

\* the instant a timestamp denotes, whatever offset it is written with
Instant(ts) == ts.wall - ts.off

AuthorRole(a) ==
    IF "user" \in DOMAIN a /\ "role" \in DOMAIN a.user THEN a.user.role ELSE ""

ByStaff(a) == AuthorRole(a) = "admin" \/ AuthorRole(a) = "staff"

IsEndorsed(a) == "endorsed" \in DOMAIN a /\ a.endorsed

QualifyingAt(answers) ==
    {k \in DOMAIN answers : ByStaff(answers[k]) \/ IsEndorsed(answers[k])}

Least(S) == CHOOSE x \in S : \A y \in S : x <= y

Loaded == pc \in {"loaded", "done"}

----------------------------------------------------------------------------
(* Thread Classifier *)

\* C1: a thread whose answer list holds an admin or staff answer, at any position
\* and whatever the other answers are, is classified Resolved.
C1_StaffAnswerResolves ==
    Loaded =>
        \A i \in DOMAIN data :
            (\E k \in DOMAIN data[i].answers : ByStaff(data[i].answers[k]))
            => /\ i \in DOMAIN threads
               /\ threads[i].id = data[i].number
               /\ threads[i].status = RESOLVED

\* a staff answer in the last of three places, behind an unendorsed and an endorsed
\* student answer
C1_Witness ==
    /\ Loaded
    /\ Len(data[1].answers) = 3
    /\ ~ByStaff(data[1].answers[1]) /\ ~IsEndorsed(data[1].answers[1])
    /\ ~ByStaff(data[1].answers[2]) /\ IsEndorsed(data[1].answers[2])
    /\ ByStaff(data[1].answers[3])
    /\ threads[1].status = RESOLVED

C3_LatencyPresentIffNotPending ==
    Loaded =>
        \A i \in DOMAIN threads :
            (threads[i].response_delay.some /\ response_delay_hours(threads[i]).some)
            <=> (threads[i].status # PENDING)

----------------------------------------------------------------------------
(* Loading *)

HasKey(item, k) == k \in DOMAIN item

IsQuestion(item) == HasKey(item, "type") /\ item.type = "question"

\* the record lacks its identifier or creation timestamp, or the creation timestamp
\* does not parse
LacksRequired(item) ==
    \/ ~HasKey(item, "number")
    \/ ~HasKey(item, "created_at")
    \/ ~item.created_at.iso

\* every field is there and every timestamp of the record parses
WellFormed(item) ==
    /\ ~LacksRequired(item)
    /\ \A k \in DOMAIN item.answers :
          HasKey(item.answers[k], "created_at") /\ item.answers[k].created_at.iso

Questions == {i \in DOMAIN data : IsQuestion(data[i])}

----------------------------------------------------------------------------
(* Category path *)

NonEmptySegments(t) ==
    LET NonEmpty(x) == x # <<>> IN
    SelectSeq(<<t.category, t.subcategory, t.subsubcategory>>, NonEmpty)

Dashed(segs) ==
    IF Len(segs) = 0 THEN <<>>
    ELSE IF Len(segs) = 1 THEN segs[1]
    ELSE IF Len(segs) = 2 THEN segs[1] \o <<45>> \o segs[2]
    ELSE segs[1] \o <<45>> \o segs[2] \o <<45>> \o segs[3]

\* C7: category_path is the non-empty segments among category, subcategory and
\* subsubcategory, in that order, joined by "-".
C7_PathJoinsNonEmptySegments ==
    Loaded =>
        \A i \in DOMAIN threads :
            category_path(threads[i]) = Dashed(NonEmptySegments(threads[i]))

----------------------------------------------------------------------------
(* Aggregator *)

Shown == DOMAIN filtered_threads

StatusOf(i) == filtered_threads[i].status

WithStatus(s) == Cardinality({i \in Shown : StatusOf(i) = s})

\* the effective-answer predicate of the policy flag
CountsAsAnswered(i) ==
    \/ StatusOf(i) = RESOLVED
    \/ StatusOf(i) = ENDORSED
    \/ (StatusOf(i) = UNCONFIRMED /\ args.count_unconfirmed)

\* the effectively-answered threads whose latency is at most h hours
AnsweredWithin(h) ==
    Cardinality({i \in Shown :
                    /\ CountsAsAnswered(i)
                    /\ filtered_threads[i].response_delay.some
                    /\ filtered_threads[i].response_delay.v <= h * 3600})

SloReported == pc = "done" /\ report.outcome = "stats" /\ report.timing.some

\* C5: when SLO metrics are reported, each bucket count is the number of
\* effectively-answered threads whose latency is at most the ceiling (inclusive),
\* and is reported over the effectively-answered count.
C5_BucketsCountLatencies ==
    SloReported =>
        /\ report.timing.v.within_6h = AnsweredWithin(6)
        /\ report.timing.v.within_24h = AnsweredWithin(24)
        /\ report.timing.v.within_48h = AnsweredWithin(48)
        /\ report.timing.v.slo_denominator = Cardinality({i \in Shown : CountsAsAnswered(i)})

\* C6: count(<=6h) <= count(<=24h) <= count(<=48h) <= effectively-answered count.
C6_BucketsMonotonic ==
    SloReported =>
        /\ report.timing.v.within_6h <= report.timing.v.within_24h
        /\ report.timing.v.within_24h <= report.timing.v.within_48h
        /\ report.timing.v.within_48h <= report.answered_count

\* three different bucket counts, the last below the answered count
C6_Witness ==
    /\ SloReported
    /\ report.timing.v.within_6h < report.timing.v.within_24h
    /\ report.timing.v.within_24h < report.timing.v.within_48h

NoZero(divisors) == \A k \in DOMAIN divisors : divisors[k] # 0

\* C8: no ratio is ever evaluated over a zero denominator, by the statistics or by
\* the category breakdown, and an empty set of threads gives "no questions found"
\* with no ratio computed at all.
C8_NoZeroDenominator ==
    pc = "done" =>
        /\ NoZero(report.divisors)
        /\ breakdown.ran => NoZero(breakdown.divisors)
        /\ Len(filtered_threads) = 0 =>
              /\ report.outcome = "no_questions"
              /\ report.divisors = <<>>
              /\ breakdown.ran => breakdown.divisors = <<>>
        /\ Len(filtered_threads) > 0 => report.outcome = "stats"

\* the empty set reported with the category breakdown asked for
C8_Witness ==
    /\ pc = "done"
    /\ Len(filtered_threads) = 0
    /\ breakdown.ran
    /\ report.outcome = "no_questions"

\* C9: the effectively-answered count is Resolved + Endorsed without the policy
\* flag and Resolved + Endorsed + Unconfirmed with it, Pending never counts, and
\* the per-status counts are those of the input set whatever the flag.
C9_AnsweredCountFollowsPolicy ==
    (pc = "done" /\ report.outcome = "stats") =>
        /\ \A k \in DOMAIN ThreadStatus :
              report.status_counts[ThreadStatus[k]] = WithStatus(ThreadStatus[k])
        /\ report.total_count = Cardinality(Shown)
        /\ ~args.count_unconfirmed =>
              report.answered_count = WithStatus(RESOLVED) + WithStatus(ENDORSED)
        /\ args.count_unconfirmed =>
              report.answered_count
                = WithStatus(RESOLVED) + WithStatus(ENDORSED) + WithStatus(UNCONFIRMED)

\* an Unconfirmed and an Endorsed thread without the flag: one is counted
C9_Witness ==
    /\ pc = "done"
    /\ ~args.count_unconfirmed
    /\ report.outcome = "stats"
    /\ WithStatus(UNCONFIRMED) = 1
    /\ WithStatus(ENDORSED) = 1
    /\ report.answered_count = 1

----------------------------------------------------------------------------
(* Category Aggregator *)

PathOf(i) == category_path(filtered_threads[i])

Paths == {PathOf(i) : i \in Shown}

\* the threads shown that have path p, in their order
Having(p) ==
    LET HasPath(t) == category_path(t) = p IN SelectSeq(filtered_threads, HasPath)

\* a before b in lexicographic order of code points
LexBefore(a, b) ==
    \E k \in 1..(Len(a) + 1) :
        /\ k <= Len(b)
        /\ \A m \in 1..(k - 1) : a[m] = b[m]
        /\ (k = Len(a) + 1 \/ a[k] < b[k])

RECURSIVE SumOver(_, _)
SumOver(groups, field) ==
    IF Len(groups) = 0 THEN 0 ELSE Head(groups)[field] + SumOver(Tail(groups), field)

\* C10: the breakdown has one group per distinct category path, in ascending
\* lexicographic order of path; each group's total, per-status counts and answered
\* count are those the statistics give on the threads of that path, so the groups'
\* totals and answered counts add up to the overall ones.
C10_BreakdownMatchesStatistics ==
    (pc = "done" /\ breakdown.ran) =>
        LET g == breakdown.groups IN
        /\ {g[j].category : j \in DOMAIN g} = Paths
        /\ Len(g) = Cardinality(Paths)
        /\ \A j \in DOMAIN g : \A k \in DOMAIN g :
              j < k => LexBefore(g[j].category, g[k].category)
        /\ \A j \in DOMAIN g :
              LET r == _show_statistics(Having(g[j].category), args.count_unconfirmed) IN
              /\ r.outcome = "stats"
              /\ g[j].total = r.total_count
              /\ g[j].status_counts = r.status_counts
              /\ g[j].answered = r.answered_count
        /\ report.outcome = "stats" =>
              /\ SumOver(g, "total") = report.total_count
              /\ SumOver(g, "answered") = report.answered_count

\* three threads in two groups, met in descending order of path
C10_Witness ==
    /\ pc = "done" /\ breakdown.ran
    /\ Len(filtered_threads) = 3
    /\ Len(breakdown.groups) = 2
    /\ LexBefore(PathOf(2), PathOf(1))
    /\ breakdown.groups[1].total = 2
    /\ breakdown.groups[1].answered = 1

====
